---- MODULE Spec2Model ----
(***************************************************************************)
(* create-react-native-typescript-app: the CLI that runs `react-native     *)
(* init <name>` and then patches the generated project for TypeScript.     *)
(*                                                                         *)
(* The repository holds two variants of the CLI (src/unnamed/part_000,     *)
(* lines 1-292 and lines 293-547).  Variant 1 detects the package manager; *)
(* variant 2 hard-codes yarn.  The variable `variant` says which one runs. *)
(*                                                                         *)
(* One action of the model is one turn of the event loop: an I/O callback  *)
(* or event handler together with the promise reactions it triggers (the   *)
(* continuation of init after an await, the .catch handler of main), which *)
(* Node runs as microtasks before any other callback.                      *)
(***************************************************************************)
EXTENDS Integers, Sequences, FiniteSets, TLC

VARIABLES
    variant,        \* 1: part_000 lines 1-292, 2: part_000 lines 293-547
    platform,       \* process.platform
    argv,           \* process.argv
    pc,             \* "start", "running", "noname", "done", "failed", "crashed"
    packageManager, \* the value getPackageManager resolved to ("" before)
    promise,        \* state of the promise each step of init returned
    started,        \* the steps of init in the order they were started
    child,          \* the child process of createApp / installDevDeps
    spawned,        \* every subprocess launched, in order
    chunks,         \* number of stdout/stderr chunks delivered so far
    files,          \* the paths that exist below <cwd>/<appName> ("." is the directory)
    indexJs,        \* content of index.js, a sequence of characters
    indexOrig,      \* content of index.js as the generator wrote it
    indexBuf,       \* replacedContent handed to fs.writeFile by modifyIndexJs
    rewrites,       \* number of times the rewritten index.js was written
    pkgJson,        \* content of package.json
    pkgOrig,        \* content of package.json as the generator wrote it
    pkgBuf,         \* replacedContent handed to fs.writeFile by modifyPackageJson
    merges,         \* number of times the merged package.json was written
    probe,          \* outcome of the `yarn -v` probe ("none" before it ended)
    copy,           \* state of the three copyFile promises / streams
    edit,           \* state of the three edits of modifyAppFiles
    log             \* what message.error / warn / info / success printed, in order

vars == <<variant, platform, argv, pc, packageManager, promise, started, child,
          spawned, chunks, files, indexJs, indexOrig, indexBuf, rewrites,
          pkgJson, pkgOrig, pkgBuf, merges, probe, copy, edit, log>>

(***************************************************************************)
(* Bounds of the model.                                                    *)
(***************************************************************************)
\* stdout/stderr chunks a run delivers at most
MaxChunks == 1
\* entries of a generated scripts / devDependencies object (pure-function runs)
MaxEntries == 2
\* fragments an index.js content is built from (pure-function runs)
MaxFrags == 3
\* times the pure functions are applied in a row (pure-function runs)
MaxApply == 2

(***************************************************************************)
(* Constants of the program.                                               *)
(***************************************************************************)
YARN == "yarn"
NPM == "npm"
REACT_NATIVE == "react-native"
SOURCE_FOLDER_NAME == "src"
BUILD_FOLDER_NAME == <<"b", "u", "i", "l", "d">>

\* commandArgs[packageManager].run
commandArgsRun(pm) == IF pm = NPM THEN "run" ELSE ""

\* the dependency list of installDevDeps
dependencies ==
    <<"react-native-cli", "concurrently", "rimraf", "typescript", "tslint",
      "@types/jest", "@types/react", "@types/react-native">>

\* commandArgs[packageManager].dev(deps)
commandArgsDev(pm, deps) ==
    IF pm = NPM THEN <<"install">> \o deps \o <<"--save-dev">>
    ELSE <<"add">> \o deps \o <<"--dev">>

\* getCommand(command)
getCommand(command, plat) ==
    IF plat = "win32" THEN command \o ".cmd" ELSE command

\* getAppName reading the wrong position of argv
getAppNameOffByOne(av) == IF Len(av) > 1 THEN av[2] ELSE ""

\* getAppName(argv)
getAppName(av) == IF Len(av) > 2 THEN av[3] ELSE ""

(***************************************************************************)
(* modifyIndexJs: content.replace(/'.\/App'/i, `'./${BUILD_FOLDER_NAME}/App'`) *)
(* Text is a sequence of one-character strings.                            *)
(***************************************************************************)
LineTerminators == {"\n", "\r"}

\* case folding of the i flag, on the letters of the pattern
FoldCase(c) == IF c = "A" THEN "a" ELSE IF c = "P" THEN "p" ELSE c

\* the regular expression /'.\/App'/i, element by element; "ANY" is the
\* unescaped dot, every other element is a literal character
ImportRegex == <<"'", "ANY", "/", "A", "p", "p", "'">>

RegexElemMatches(p, c) ==
    IF p = "ANY" THEN c \notin LineTerminators
    ELSE FoldCase(c) = FoldCase(p)

RegexMatchesAt(s, i) ==
    /\ i >= 1
    /\ i + Len(ImportRegex) - 1 <= Len(s)
    /\ \A k \in 1..Len(ImportRegex) : RegexElemMatches(ImportRegex[k], s[i + k - 1])

\* index of the first match, 0 when there is none
RegexFirstMatch(s) ==
    IF \E i \in 1..Len(s) : RegexMatchesAt(s, i)
    THEN CHOOSE i \in 1..Len(s) :
            /\ RegexMatchesAt(s, i)
            /\ \A j \in 1..(i - 1) : ~RegexMatchesAt(s, j)
    ELSE 0

\* the replacement string `'./${BUILD_FOLDER_NAME}/App'`
BuildImport == <<"'", ".", "/">> \o BUILD_FOLDER_NAME \o <<"/", "A", "p", "p", "'">>

\* modifyIndexJs writing the content back as it read it
ReplaceImportNothing(s) == s

\* String.prototype.replace with a regex without the g flag: first match only
ReplaceImport(s) ==
    LET i == RegexFirstMatch(s) IN
    IF i = 0 THEN s
    ELSE SubSeq(s, 1, i - 1) \o BuildImport \o SubSeq(s, i + Len(ImportRegex), Len(s))

(***************************************************************************)
(* modifyPackageJson: JSON.parse, Object.assign, JSON.stringify.           *)
(* A JSON object is the sequence of its <<key, value>> entries in          *)
(* insertion order; a value is Str(s) or Obj(o).  A file content is        *)
(* [fmt, obj]: fmt is the layout of the text ("gen" as the generator       *)
(* wrote it, "tab" as JSON.stringify(.., null, '\t') writes it, "bad"      *)
(* when the text is not JSON).                                             *)
(***************************************************************************)
Str(s) == [t |-> "str", s |-> s, o |-> <<>>]
Obj(o) == [t |-> "obj", s |-> "", o |-> o]

HasKey(o, k) == \E i \in 1..Len(o) : o[i][1] = k
GetKey(o, k) == o[CHOOSE i \in 1..Len(o) : o[i][1] = k][2]

\* o[k] = v: an existing key keeps its place, a new key goes last
SetKey(o, k, v) ==
    IF HasKey(o, k)
    THEN [i \in 1..Len(o) |-> IF o[i][1] = k THEN <<k, v>> ELSE o[i]]
    ELSE Append(o, <<k, v>>)

\* Object.assign(target, source) for one source
RECURSIVE ObjectAssign(_, _)
ObjectAssign(target, source) ==
    IF source = <<>> THEN target
    ELSE ObjectAssign(SetKey(target, Head(source)[1], Head(source)[2]), Tail(source))

\* packageJson.scripts / packageJson.devDependencies (undefined reads as no entries)
Member(o, k) == IF HasKey(o, k) THEN GetKey(o, k).o ELSE <<>>

\* the scripts object literal of modifyPackageJson
ScriptsPatch(v, pm) ==
    IF v = 1
    THEN LET command == pm \o " " \o commandArgsRun(pm) IN
         << <<"tsc", "tsc">>,
            <<"clean", "rimraf build">>,
            <<"build", command \o " clean && " \o command \o " tsc --">>,
            <<"lint", "tslint src/**/*.ts">>,
            <<"watch", command \o " build -w">>,
            <<"ios", command \o " build && concurrently -r \"" \o command
                     \o " watch\" \"react-native run-ios\"">>,
            <<"android", command \o " build && concurrently -r \"" \o command
                     \o " watch\" \"react-native run-android\"">> >>
    ELSE << <<"tsc", "tsc">>,
            <<"clean", "rimraf build">>,
            <<"build", "yarn clean && yarn tsc --">>,
            <<"lint", "tslint src/**/*.ts">>,
            <<"watch", "yarn build -- -w">>,
            <<"ios", "yarn build && concurrently -r \"yarn watch\" \"react-native run-ios\"">>,
            <<"android", "yarn build && concurrently -r \"yarn watch\" \"react-native run-android\"">> >>

\* the devDependencies object literal of modifyPackageJson (variant 2 only)
DevDependenciesPatch ==
    << <<"@types/jest", "^21.1.5">>,
       <<"@types/react", "^16.0.19">>,
       <<"@types/react-native", "^0.49.5">>,
       <<"concurrently", "^3.5.0">>,
       <<"react-native-cli", "^2.0.1">>,
       <<"rimraf", "^2.6.2">>,
       <<"tslint", "^5.8.0">>,
       <<"typescript", "^2.6.1">> >>

\* Object.assign with the sources in the wrong order: existing scripts win
MergeScriptsReversed(obj, v, pm) ==
    ObjectAssign(ObjectAssign(<<>>, ScriptsPatch(v, pm)), Member(obj, "scripts"))

\* Object.assign({}, packageJson.scripts, {...})
MergeScripts(obj, v, pm) ==
    ObjectAssign(ObjectAssign(<<>>, Member(obj, "scripts")), ScriptsPatch(v, pm))

\* Object.assign({}, packageJson.devDependencies, {...})
MergeDevDependencies(obj) ==
    ObjectAssign(ObjectAssign(<<>>, Member(obj, "devDependencies")), DevDependenciesPatch)

\* the object modifyPackageJson serialises, from the object it parsed
MergePackageJson(obj, v, pm) ==
    LET withScripts == SetKey(obj, "scripts", Obj(MergeScripts(obj, v, pm))) IN
    IF v = 1 THEN withScripts
    ELSE SetKey(withScripts, "devDependencies", Obj(MergeDevDependencies(withScripts)))

JsonParseThrows(text) == text.fmt = "bad"
JsonParse(text) == text.obj
JsonStringify(obj) == [fmt |-> "tab", obj |-> obj]

NoText == [fmt |-> "none", obj |-> <<>>]

(***************************************************************************)
(* State of a run.                                                         *)
(***************************************************************************)
Steps ==
    <<"getPackageManager", "createApp", "createSourceDirectory",
      "copyAssetFiles", "modifyAppFiles", "installDevDeps">>

StepSet == {Steps[i] : i \in 1..Len(Steps)}

\* the asset files copyAssetFiles copies, and where each one goes
Assets == {"App.tsx", "tsconfig.json", "tslint.json"}

AssetDest(f) == IF f = "App.tsx" THEN SOURCE_FOLDER_NAME \o "/" \o f ELSE f

\* the three edits of modifyAppFiles
Edits == {"index", "package", "remove"}

Msg(level, from, text) == [level |-> level, from |-> from, text |-> text]

NoChild ==
    [step |-> "", running |-> FALSE, data |-> FALSE, errored |-> FALSE,
     closed |-> FALSE, code |-> 0]
RunningChild(step) ==
    [step |-> step, running |-> TRUE, data |-> FALSE, errored |-> FALSE,
     closed |-> FALSE, code |-> 0]

SpawnRec(cmd, args) == [cmd |-> getCommand(cmd, platform), args |-> args]

\* spawn(getCommand('react-native'), ['init', appName], defaults)
CreateAppSpawn == SpawnRec(REACT_NATIVE, <<"init", getAppName(argv)>>)

\* the spawn of installDevDeps (variant 1) / installDeps (variant 2)
InstallSpawn(v, pm) ==
    IF v = 1 THEN SpawnRec(pm, commandArgsDev(pm, dependencies))
    ELSE SpawnRec(YARN, <<"install">>)

\* the two messages init prints last
SuccessText == getAppName(argv) \o " project created successfully."

UsageText(v, pm) ==
    IF v = 1
    THEN LET command == pm \o (IF commandArgsRun(pm) # "" THEN " " \o commandArgsRun(pm) ELSE "")
         IN "Use '" \o command \o " android' or '" \o command \o " ios' to run."
    ELSE "Use 'yarn android' or 'yarn ios' to run."

\* reject(`Child process exited with code ${code}`)
ExitText(code) == "Child process exited with code " \o ToString(code)

(***************************************************************************)
(* What the environment can hand to the program.                           *)
(***************************************************************************)
ArgvChoices ==
    { <<"node">>, <<"node", "cli">>, <<"node", "cli", "">>,
      <<"node", "cli", "MyApp">>, <<"node", "cli", "MyApp", "extra">> }

ProbeOutcomes == {"exit0", "exitNonZero", "spawnError"}

\* exit codes of a child that ran, and the code `close` carries after a failed spawn
ExitCodes == {0, 1}
SpawnFailCodes == {-2}

\* index.js as the project generator writes it
GenIndex ==
    { <<"i", "'", ".", "/", "A", "p", "p", "'", ";">>,
      <<"'", ".", "/", "a", "p", "p", "'">>,
      <<"i", ";">> }

\* package.json as the project generator writes it
GenPackage ==
    { [fmt |-> "gen", obj |-> << <<"name", Str("MyApp")>>,
                                 <<"scripts", Obj(<< <<"start", "node start">>, <<"test", "jest">> >>)>>,
                                 <<"devDependencies", Obj(<< <<"jest", "21.2.1">> >>)>> >>],
      [fmt |-> "gen", obj |-> << <<"scripts", Obj(<< <<"tsc", "old">>, <<"start", "node start">> >>)>>,
                                 <<"name", Str("MyApp")>> >>],
      [fmt |-> "gen", obj |-> << <<"name", Str("MyApp")>> >>],
      [fmt |-> "bad", obj |-> <<>>] }

Idle ==
    /\ promise = [s \in StepSet \cup {"init"} |-> "none"]
    /\ started = <<>>
    /\ child = NoChild
    /\ spawned = <<>>
    /\ chunks = 0
    /\ indexBuf = <<>>
    /\ pkgBuf = NoText
    /\ probe = "none"
    /\ copy = [f \in Assets |-> "idle"]
    /\ edit = [e \in Edits |-> "idle"]
    /\ log = <<>>

Init ==
    /\ variant \in {1, 2}
    /\ platform \in {"linux", "win32"}
    /\ argv \in ArgvChoices
    /\ pc = "start"
    /\ files \in {{}, {"."}}
    /\ indexJs = <<>> /\ indexOrig = <<>> /\ rewrites = 0
    /\ pkgJson = NoText /\ pkgOrig = NoText /\ merges = 0
    /\ packageManager = ""
    /\ Idle

(***************************************************************************)
(* Promise reactions shared by the handlers.                               *)
(***************************************************************************)
\* init(appName).catch(message.error): init rejected with `reason` at step `step`
Rejected(step, reason) ==
    /\ promise' = [promise EXCEPT ![step] = "rejected", !["init"] = "rejected"]
    /\ pc' = "failed"
    /\ log' = Append(log, Msg("error", "catch", reason))

\* init without the check of the target directory
existsSyncSkipped(fs, path) == FALSE

\* fs.existsSync(appPath), appPath being "." of the model's file system
existsSync(fs, path) == path \in fs

\* getPackageManager with the two branches exchanged
ResolvePackageManagerSwapped(error) == IF error THEN YARN ELSE NPM

\* getPackageManager: error ? resolve(NPM) : resolve(YARN)
ResolvePackageManager(error) == IF error THEN NPM ELSE YARN

\* the error handler calling rejectCleanup(error): the promise is rejected
copyFileOnErrorRejects(state) == "rejected"

\* the state a copyFile promise is left in by `error => rejectCleanup`:
\* the handler names rejectCleanup without calling it, the promise stays pending
copyFileOnError(state) == "errored"

\* the promise of the subprocess wrapper after the 'close' handler ran
wrapperOnClose(code) == IF code # 0 THEN "rejected" ELSE "resolved"

\* a join that waits for every member and then resolves whatever they did
PromiseAllSettled(members) ==
    IF \A m \in DOMAIN members : members[m] \in {"resolved", "rejected"} THEN "resolved"
    ELSE "pending"

\* Promise.all over settled/pending members
PromiseAll(members) ==
    IF \E m \in DOMAIN members : members[m] = "rejected" THEN "rejected"
    ELSE IF \A m \in DOMAIN members : members[m] = "resolved" THEN "resolved"
    ELSE "pending"

\* the promise of each edit of modifyAppFiles, from the edit's state
EditPromise(e) ==
    [k \in DOMAIN e |-> IF e[k] \in {"resolved", "rejected"} THEN e[k] ELSE "pending"]

\* the promise of each copyFile, from the copy's state
CopyPromise(c) ==
    [k \in DOMAIN c |-> IF c[k] \in {"resolved", "rejected"} THEN c[k] ELSE "pending"]

(***************************************************************************)
(* main and the synchronous head of init.                                  *)
(***************************************************************************)
main ==
    /\ pc = "start"
    /\ LET appName == getAppName(argv) IN
       IF appName = ""
       THEN /\ pc' = "noname"
            /\ log' = Append(log, Msg("error", "main", "App name is not specified."))
            /\ UNCHANGED <<promise, started, spawned, child>>
       ELSE IF existsSync(files, ".")
       THEN /\ pc' = "failed"
            /\ promise' = [promise EXCEPT !["init"] = "rejected"]
            /\ log' = Append(log, Msg("error", "catch", appName \o " directory already exists."))
            /\ UNCHANGED <<started, spawned, child>>
       ELSE IF variant = 1
       THEN /\ pc' = "running"
            /\ promise' = [promise EXCEPT !["init"] = "pending", !["getPackageManager"] = "pending"]
            /\ started' = Append(started, "getPackageManager")
            /\ spawned' = Append(spawned, SpawnRec(YARN, <<"-v">>))
            /\ UNCHANGED <<log, child>>
       ELSE /\ pc' = "running"
            /\ promise' = [promise EXCEPT !["init"] = "pending", !["createApp"] = "pending"]
            /\ started' = Append(started, "createApp")
            /\ spawned' = Append(spawned, CreateAppSpawn)
            /\ child' = RunningChild("createApp")
            /\ UNCHANGED log
    /\ UNCHANGED <<variant, platform, argv, packageManager, chunks, files, indexJs,
                   indexOrig, indexBuf, rewrites, pkgJson, pkgOrig, pkgBuf, merges,
                   probe, copy, edit>>

(***************************************************************************)
(* getPackageManager: the callback of execFile(yarn, ['-v']).              *)
(***************************************************************************)
execFileCallback(outcome) ==
    /\ pc = "running"
    /\ promise["getPackageManager"] = "pending"
    /\ probe' = outcome
    /\ packageManager' = ResolvePackageManager(outcome # "exit0")
    /\ promise' = [promise EXCEPT !["getPackageManager"] = "resolved", !["createApp"] = "pending"]
    /\ started' = Append(started, "createApp")
    /\ spawned' = Append(spawned, CreateAppSpawn)
    /\ child' = RunningChild("createApp")
    /\ UNCHANGED <<variant, platform, argv, pc, chunks, files, indexJs, indexOrig,
                   indexBuf, rewrites, pkgJson, pkgOrig, pkgBuf, merges, copy, edit, log>>

(***************************************************************************)
(* createApp / installDevDeps / installDeps: the handlers on the child.    *)
(***************************************************************************)
ChildLive == pc = "running" /\ child.running /\ ~child.closed

\* native.stdout.on('data', message.info)
childStdoutData ==
    /\ ChildLive /\ ~child.errored
    /\ chunks < MaxChunks
    /\ chunks' = chunks + 1
    /\ log' = Append(log, Msg("info", "stdout", "data"))
    /\ child' = [child EXCEPT !.data = TRUE]
    /\ UNCHANGED <<variant, platform, argv, pc, packageManager, promise, started,
                   spawned, files, indexJs, indexOrig, indexBuf, rewrites, pkgJson,
                   pkgOrig, pkgBuf, merges, probe, copy, edit>>

\* native.stderr.on('data', ...): text.startsWith('Error') / startsWith('warning')
childStderrData(prefix) ==
    /\ ChildLive /\ ~child.errored
    /\ chunks < MaxChunks
    /\ chunks' = chunks + 1
    /\ log' = IF prefix = "Error" THEN Append(log, Msg("error", "stderr", "data"))
              ELSE IF prefix = "warning" THEN Append(log, Msg("warn", "stderr", "data"))
              ELSE log
    /\ child' = [child EXCEPT !.data = TRUE]
    /\ UNCHANGED <<variant, platform, argv, pc, packageManager, promise, started,
                   spawned, files, indexJs, indexOrig, indexBuf, rewrites, pkgJson,
                   pkgOrig, pkgBuf, merges, probe, copy, edit>>

\* native.on('error', message.error): the child could not be spawned
childErrorEvent ==
    /\ ChildLive /\ ~child.errored
    /\ ~child.data
    /\ child' = [child EXCEPT !.errored = TRUE]
    /\ log' = Append(log, Msg("error", "childError", "spawn"))
    /\ UNCHANGED <<variant, platform, argv, pc, packageManager, promise, started, spawned, chunks,
                   files, indexJs, indexOrig, indexBuf, rewrites, pkgJson, pkgOrig,
                   pkgBuf, merges, probe, copy, edit>>

\* native.on('close', code => ...), and init resumed after the await
childCloseEvent(code) ==
    /\ ChildLive
    /\ code \in (IF child.errored THEN SpawnFailCodes ELSE ExitCodes)
    /\ child' = [child EXCEPT !.closed = TRUE, !.running = FALSE, !.code = code]
    /\ IF wrapperOnClose(code) = "rejected"
       THEN /\ Rejected(child.step, ExitText(code))
            \* a generator that failed may leave a half-created directory behind
            /\ \/ UNCHANGED files
               \/ /\ child.step = "createApp" /\ ~child.errored
                  /\ files' = files \cup {"."}
            /\ UNCHANGED <<started, indexJs, indexOrig, pkgJson, pkgOrig>>
       ELSE IF child.step = "createApp"
       THEN \* the generator populated the project; init goes on to createSourceDirectory
            /\ files' = files \cup {".", "index.js", "App.js", "package.json"}
            /\ indexOrig' \in GenIndex /\ indexJs' = indexOrig'
            /\ pkgOrig' \in GenPackage /\ pkgJson' = pkgOrig'
            /\ promise' = [promise EXCEPT !["createApp"] = "resolved",
                                          !["createSourceDirectory"] = "pending"]
            /\ started' = Append(started, "createSourceDirectory")
            /\ UNCHANGED <<pc, log>>
       ELSE \* the installer ended: init prints the success message and the hint
            /\ promise' = [promise EXCEPT ![child.step] = "resolved", !["init"] = "resolved"]
            /\ pc' = "done"
            /\ log' = log \o << Msg("success", "init", SuccessText),
                                Msg("info", "init", UsageText(variant, packageManager)) >>
            /\ UNCHANGED <<started, files, indexJs, indexOrig, pkgJson, pkgOrig>>
    /\ UNCHANGED <<variant, platform, argv, packageManager, spawned, chunks, indexBuf,
                   rewrites, pkgBuf, merges, probe, copy, edit>>

(***************************************************************************)
(* createSourceDirectory: the callback of fs.mkdir.                        *)
(***************************************************************************)
mkdirCallback(error) ==
    /\ pc = "running"
    /\ promise["createSourceDirectory"] = "pending"
    /\ ("." \notin files \/ SOURCE_FOLDER_NAME \in files) => error
    /\ IF error
       THEN /\ Rejected("createSourceDirectory", "mkdir")
            /\ UNCHANGED <<files, started, copy>>
       ELSE \* init goes on to copyAssetFiles: three copyFile calls open their streams
            /\ files' = files \cup {SOURCE_FOLDER_NAME}
            /\ promise' = [promise EXCEPT !["createSourceDirectory"] = "resolved",
                                          !["copyAssetFiles"] = "pending"]
            /\ started' = Append(started, "copyAssetFiles")
            /\ copy' = [f \in Assets |-> "streaming"]
            /\ UNCHANGED <<pc, log>>
    /\ UNCHANGED <<variant, platform, argv, packageManager, child, spawned, chunks,
                   indexJs, indexOrig, indexBuf, rewrites, pkgJson, pkgOrig, pkgBuf,
                   merges, probe, edit>>

(***************************************************************************)
(* copyAssetFiles / copyFile: the stream events, and Promise.all.          *)
(***************************************************************************)
\* what follows a copyFile event once the copies are in state c2
copyAssetFilesJoin(c2) ==
    IF promise["copyAssetFiles"] # "pending" \/ PromiseAll(CopyPromise(c2)) = "pending"
    THEN UNCHANGED <<promise, pc, log, started, edit>>
    ELSE IF PromiseAll(CopyPromise(c2)) = "rejected"
    THEN /\ Rejected("copyAssetFiles", "copy")
         /\ UNCHANGED <<started, edit>>
    ELSE \* init goes on to modifyAppFiles: two readFile calls and one unlink are issued
         /\ promise' = [promise EXCEPT !["copyAssetFiles"] = "resolved",
                                       !["modifyAppFiles"] = "pending"]
         /\ started' = Append(started, "modifyAppFiles")
         /\ edit' = [index |-> "reading", package |-> "reading", remove |-> "unlinking"]
         /\ UNCHANGED <<pc, log>>

\* writeStream.on('finish', resolve)
copyFinish(f) ==
    /\ pc # "crashed"
    /\ copy[f] = "streaming"
    /\ files' = files \cup {AssetDest(f)}
    /\ copy' = [copy EXCEPT ![f] = "resolved"]
    /\ copyAssetFilesJoin(copy')
    /\ UNCHANGED <<variant, platform, argv, packageManager, child, spawned, chunks,
                   indexJs, indexOrig, indexBuf, rewrites, pkgJson, pkgOrig, pkgBuf,
                   merges, probe>>

\* .on('error', error => rejectCleanup) of the read or the write stream;
\* `created` says whether the destination file was opened before the error
copyStreamError(f, stream, created) ==
    /\ pc # "crashed"
    /\ copy[f] = "streaming"
    /\ stream \in {"read", "write"}
    /\ files' = IF created THEN files \cup {AssetDest(f)} ELSE files
    /\ copy' = [copy EXCEPT ![f] = copyFileOnError(copy[f])]
    /\ copyAssetFilesJoin(copy')
    /\ UNCHANGED <<variant, platform, argv, packageManager, child, spawned, chunks,
                   indexJs, indexOrig, indexBuf, rewrites, pkgJson, pkgOrig, pkgBuf,
                   merges, probe>>

(***************************************************************************)
(* modifyAppFiles: the callbacks of the three edits, and Promise.all.      *)
(***************************************************************************)
\* what follows an edit's callback once the edits are in state e2
modifyAppFilesJoin(e2) ==
    IF promise["modifyAppFiles"] # "pending" \/ PromiseAll(EditPromise(e2)) = "pending"
    THEN UNCHANGED <<promise, pc, log, started, spawned, child>>
    ELSE IF PromiseAll(EditPromise(e2)) = "rejected"
    THEN /\ Rejected("modifyAppFiles", "edit")
         /\ UNCHANGED <<started, spawned, child>>
    ELSE \* init goes on to installDevDeps: the package manager is spawned
         /\ promise' = [promise EXCEPT !["modifyAppFiles"] = "resolved",
                                       !["installDevDeps"] = "pending"]
         /\ started' = Append(started, "installDevDeps")
         /\ spawned' = Append(spawned, InstallSpawn(variant, packageManager))
         /\ child' = RunningChild("installDevDeps")
         /\ UNCHANGED <<pc, log>>

\* modifyIndexJs: the callback of fs.readFile
indexReadCallback(error) ==
    /\ pc # "crashed"
    /\ edit["index"] = "reading"
    /\ "index.js" \notin files => error
    /\ IF error
       THEN /\ edit' = [edit EXCEPT !["index"] = "rejected"]
            /\ UNCHANGED indexBuf
       ELSE /\ edit' = [edit EXCEPT !["index"] = "writing"]
            /\ indexBuf' = ReplaceImport(indexJs)
    /\ modifyAppFilesJoin(edit')
    /\ UNCHANGED <<variant, platform, argv, packageManager, chunks, files, indexJs,
                   indexOrig, rewrites, pkgJson, pkgOrig, pkgBuf, merges, probe, copy>>

\* modifyIndexJs: the callback of fs.writeFile
indexWriteCallback(error) ==
    /\ pc # "crashed"
    /\ edit["index"] = "writing"
    /\ "." \notin files => error
    /\ IF error
       THEN /\ edit' = [edit EXCEPT !["index"] = "rejected"]
            /\ UNCHANGED <<indexJs, rewrites, files>>
       ELSE /\ edit' = [edit EXCEPT !["index"] = "resolved"]
            /\ indexJs' = indexBuf
            /\ rewrites' = rewrites + 1
            /\ files' = files \cup {"index.js"}
    /\ modifyAppFilesJoin(edit')
    /\ UNCHANGED <<variant, platform, argv, packageManager, chunks, indexOrig, indexBuf,
                   pkgJson, pkgOrig, pkgBuf, merges, probe, copy>>

\* modifyPackageJson: the callback of fs.readFile.  JSON.parse runs inside the
\* callback, outside the promise executor: when it throws, nothing rejects the
\* promise and the exception is uncaught, which ends the process.
packageReadCallback(error) ==
    /\ pc # "crashed"
    /\ edit["package"] = "reading"
    /\ "package.json" \notin files => error
    /\ IF error
       THEN /\ edit' = [edit EXCEPT !["package"] = "rejected"]
            /\ UNCHANGED pkgBuf
            /\ modifyAppFilesJoin(edit')
       ELSE IF JsonParseThrows(pkgJson)
       THEN /\ edit' = [edit EXCEPT !["package"] = "threw"]
            /\ pc' = "crashed"
            /\ UNCHANGED <<pkgBuf, promise, log, started, spawned, child>>
       ELSE /\ edit' = [edit EXCEPT !["package"] = "writing"]
            /\ pkgBuf' = JsonStringify(MergePackageJson(JsonParse(pkgJson), variant, packageManager))
            /\ modifyAppFilesJoin(edit')
    /\ UNCHANGED <<variant, platform, argv, packageManager, chunks, files, indexJs,
                   indexOrig, indexBuf, rewrites, pkgJson, pkgOrig, merges, probe, copy>>

\* modifyPackageJson: the callback of fs.writeFile
packageWriteCallback(error) ==
    /\ pc # "crashed"
    /\ edit["package"] = "writing"
    /\ "." \notin files => error
    /\ IF error
       THEN /\ edit' = [edit EXCEPT !["package"] = "rejected"]
            /\ UNCHANGED <<pkgJson, merges, files>>
       ELSE /\ edit' = [edit EXCEPT !["package"] = "resolved"]
            /\ pkgJson' = pkgBuf
            /\ merges' = merges + 1
            /\ files' = files \cup {"package.json"}
    /\ modifyAppFilesJoin(edit')
    /\ UNCHANGED <<variant, platform, argv, packageManager, chunks, indexJs, indexOrig,
                   indexBuf, rewrites, pkgOrig, pkgBuf, probe, copy>>

\* removeAppJs: the callback of fs.unlink
unlinkCallback(error) ==
    /\ pc # "crashed"
    /\ edit["remove"] = "unlinking"
    /\ "App.js" \notin files => error
    /\ IF error
       THEN /\ edit' = [edit EXCEPT !["remove"] = "rejected"]
            /\ UNCHANGED files
       ELSE /\ edit' = [edit EXCEPT !["remove"] = "resolved"]
            /\ files' = files \ {"App.js"}
    /\ modifyAppFilesJoin(edit')
    /\ UNCHANGED <<variant, platform, argv, packageManager, chunks, indexJs, indexOrig,
                   indexBuf, rewrites, pkgJson, pkgOrig, pkgBuf, merges, probe, copy>>

(***************************************************************************)
(* The run of the CLI.                                                     *)
(***************************************************************************)
Next ==
    \/ main
    \/ \E outcome \in ProbeOutcomes : execFileCallback(outcome)
    \/ childStdoutData
    \/ \E prefix \in {"Error", "warning", "other"} : childStderrData(prefix)
    \/ childErrorEvent
    \/ \E code \in ExitCodes \cup SpawnFailCodes : childCloseEvent(code)
    \/ \E error \in BOOLEAN : mkdirCallback(error)
    \/ \E f \in Assets : copyFinish(f)
    \/ \E f \in Assets, stream \in {"read", "write"}, created \in BOOLEAN :
            copyStreamError(f, stream, created)
    \/ \E error \in BOOLEAN : indexReadCallback(error)
    \/ \E error \in BOOLEAN : indexWriteCallback(error)
    \/ \E error \in BOOLEAN : packageReadCallback(error)
    \/ \E error \in BOOLEAN : packageWriteCallback(error)
    \/ \E error \in BOOLEAN : unlinkCallback(error)

Spec == Init /\ [][Next]_vars

(***************************************************************************)
(* modifyPackageJson as a function of the manifest: the read-modify-write  *)
(* applied to manifests drawn from a bounded set, once and again.          *)
(***************************************************************************)
\* the sequences of at most n elements of S
RECURSIVE SeqsUpTo(_, _)
SeqsUpTo(S, n) ==
    IF n = 0 THEN {<<>>}
    ELSE LET shorter == SeqsUpTo(S, n - 1) IN
         shorter \cup { Append(q, x) : q \in shorter, x \in S }

KeysOf(o) == {o[i][1] : i \in 1..Len(o)}
DistinctKeys(o) == Cardinality(KeysOf(o)) = Len(o)

ScriptEntries ==
    { <<"start", "node start">>, <<"tsc", "old">>, <<"build", "old">>, <<"test", "jest">> }

DevEntries ==
    { <<"jest", "21.2.1">>, <<"typescript", "old">>, <<"tslint", "old">> }

ScriptObjects == { o \in SeqsUpTo(ScriptEntries, MaxEntries) : DistinctKeys(o) }
DevObjects == { o \in SeqsUpTo(DevEntries, MaxEntries) : DistinctKeys(o) }

\* the top-level objects: name, then scripts and devDependencies, each present or
\* not, in either order
ManifestObjects ==
    LET name == << <<"name", Str("MyApp")>> >> IN
    {name}
    \cup { name \o << <<"scripts", Obj(sc)>> >> : sc \in ScriptObjects }
    \cup { name \o << <<"devDependencies", Obj(dv)>> >> : dv \in DevObjects }
    \cup { name \o << <<"scripts", Obj(sc)>>, <<"devDependencies", Obj(dv)>> >> :
              sc \in ScriptObjects, dv \in DevObjects }
    \cup { << <<"devDependencies", Obj(dv)>>, <<"scripts", Obj(sc)>> >> \o name :
              sc \in ScriptObjects, dv \in DevObjects }

InitMerge ==
    /\ variant \in {1, 2}
    /\ platform = "linux"
    /\ argv = <<"node", "cli", "MyApp">>
    /\ pc = "running"
    /\ packageManager \in (IF variant = 1 THEN {NPM, YARN} ELSE {YARN})
    /\ files = {".", "index.js", "App.js", "package.json"}
    /\ indexJs = <<>> /\ indexOrig = <<>> /\ rewrites = 0
    /\ pkgOrig \in { [fmt |-> "gen", obj |-> o] : o \in ManifestObjects }
    /\ pkgJson = pkgOrig
    /\ merges = 0
    /\ Idle

\* modifyPackageJson from readFile to writeFile, with no I/O error
mergeApply ==
    /\ merges < MaxApply
    /\ ~JsonParseThrows(pkgJson)
    /\ pkgJson' = JsonStringify(MergePackageJson(JsonParse(pkgJson), variant, packageManager))
    /\ merges' = merges + 1
    /\ UNCHANGED <<variant, platform, argv, pc, packageManager, promise, started, child,
                   spawned, chunks, files, indexJs, indexOrig, indexBuf, rewrites,
                   pkgOrig, pkgBuf, probe, copy, edit, log>>

NextMerge == mergeApply

SpecMerge == InitMerge /\ [][NextMerge]_vars

(***************************************************************************)
(* modifyIndexJs as a function of the content of index.js.                 *)
(***************************************************************************)
Fragments ==
    { <<"'", ".", "/", "A", "p", "p", "'">>,
      <<"'", ".", "/", "a", "P", "p", "'">>,
      <<"'", "x", "/", "A", "p", "p", "'">>,
      <<"'", "\n", "/", "A", "p", "p", "'">>,
      <<"i">>,
      <<"'">> }

RECURSIVE Flatten(_)
Flatten(q) == IF q = <<>> THEN <<>> ELSE Head(q) \o Flatten(Tail(q))

IndexContents == { Flatten(q) : q \in SeqsUpTo(Fragments, MaxFrags) }

InitRewrite ==
    /\ variant \in {1, 2}
    /\ platform = "linux"
    /\ argv = <<"node", "cli", "MyApp">>
    /\ pc = "running"
    /\ packageManager = YARN
    /\ files = {".", "index.js", "App.js", "package.json"}
    /\ indexOrig \in IndexContents
    /\ indexJs = indexOrig
    /\ rewrites = 0
    /\ pkgJson = NoText /\ pkgOrig = NoText /\ merges = 0
    /\ Idle

\* modifyIndexJs from readFile to writeFile, with no I/O error
rewriteApply ==
    /\ rewrites < MaxApply
    /\ indexJs' = ReplaceImport(indexJs)
    /\ rewrites' = rewrites + 1
    /\ UNCHANGED <<variant, platform, argv, pc, packageManager, promise, started, child,
                   spawned, chunks, files, indexOrig, indexBuf, pkgJson, pkgOrig, pkgBuf,
                   merges, probe, copy, edit, log>>

NextRewrite == rewriteApply

SpecRewrite == InitRewrite /\ [][NextRewrite]_vars

(***************************************************************************)
(* Vocabulary of the properties.                                           *)
(***************************************************************************)
\* the literal './App' in single quotes, matched without regard to case
ImportLiteral == <<"'", ".", "/", "A", "p", "p", "'">>

LiteralAt(s, i) ==
    /\ i >= 1
    /\ i + Len(ImportLiteral) - 1 <= Len(s)
    /\ \A k \in 1..Len(ImportLiteral) : FoldCase(s[i + k - 1]) = FoldCase(ImportLiteral[k])

LiteralMatches(s) == { i \in 1..Len(s) : LiteralAt(s, i) }

\* s with the literal at position i replaced by './build/App'
WithBuildPathAt(s, i) ==
    SubSeq(s, 1, i - 1)
        \o <<"'", ".", "/", "b", "u", "i", "l", "d", "/", "A", "p", "p", "'">>
        \o SubSeq(s, i + Len(ImportLiteral), Len(s))

FirstLiteral(s) == CHOOSE i \in LiteralMatches(s) : \A j \in LiteralMatches(s) : i <= j

SuccessReported == \E i \in 1..Len(log) : log[i].level = "success"

CatchReports == { i \in 1..Len(log) : log[i].level = "error" /\ log[i].from = "catch" }

NoAppName == Len(argv) <= 2 \/ argv[3] = ""

\* the scripts the merge adds, as package.json shows them for each package manager
ExpectedBuildScript ==
    IF variant = 2 THEN "yarn clean && yarn tsc --"
    ELSE IF packageManager = "npm" THEN "npm run clean && npm run tsc --"
    ELSE "yarn  clean && yarn  tsc --"

ScriptKeys == {"tsc", "clean", "build", "lint", "watch", "ios", "android"}

DevKeys ==
    {"@types/jest", "@types/react", "@types/react-native", "concurrently",
     "react-native-cli", "rimraf", "tslint", "typescript"}

C2_NoAppName ==
    [][NoAppName =>
          /\ pc = "start"
          /\ pc' = "noname"
          /\ log' = <<Msg("error", "main", "App name is not specified.")>>
          /\ files' = files /\ indexJs' = indexJs /\ pkgJson' = pkgJson
          /\ spawned' = <<>> /\ started' = <<>>
          /\ promise'["init"] = "none"
          /\ child' = child /\ copy' = copy /\ edit' = edit]_vars

C2_Witness == pc = "noname" /\ Len(argv) = 3 /\ "." \notin files

(***************************************************************************)
(* C3. When the target directory already exists, init fails before the     *)
(* generator and before any other side effect (no probe, no mkdir, no      *)
(* copy, no patch, no install); the top-level handler reports the failure  *)
(* and no success message is printed.                                      *)
(***************************************************************************)
C3_ExistingDirectory ==
    [][/\ (pc = "start" /\ ~NoAppName /\ "." \in files) =>
              /\ pc' = "failed"
              /\ promise' = [promise EXCEPT !["init"] = "rejected"]
              /\ log' = <<Msg("error", "catch", "MyApp directory already exists.")>>
              /\ spawned' = <<>> /\ started' = <<>>
              /\ files' = files /\ indexJs' = indexJs /\ pkgJson' = pkgJson
              /\ child' = child /\ copy' = copy /\ edit' = edit
       \* and that report is the end of the run
       /\ (pc = "failed" /\ started = <<>>) => FALSE]_vars

C3_Witness == pc = "failed" /\ started = <<>> /\ "." \in files /\ Len(log) = 1

(***************************************************************************)
(* C4. If modifyPackageJson fails, for any cause (read error, write error, *)
(* content that is not valid JSON), while the import rewrite and the       *)
(* removal of App.js succeed, then modifyAppFiles rejects, the top-level   *)
(* handler reports the error, the installer is not started and no success  *)
(* message is printed.                                                     *)
(***************************************************************************)
C4_MergeFailureRejects ==
    (/\ edit["package"] \in {"rejected", "threw"}
     /\ edit["index"] = "resolved"
     /\ edit["remove"] = "resolved") =>
        /\ promise["modifyAppFiles"] = "rejected"
        /\ pc = "failed"
        /\ CatchReports # {}
        /\ promise["installDevDeps"] = "none"
        /\ ~SuccessReported

(***************************************************************************)
(* C5. Package-manager detection: a probe that exits non-zero or cannot be *)
(* spawned gives npm, a probe that exits zero gives yarn.  The promise     *)
(* always resolves, once, and the value it resolved to is the one in the   *)
(* manifest scripts and in the install command of the run.                 *)
(***************************************************************************)
C5_Detected ==
    probe # "none" =>
        /\ promise["getPackageManager"] = "resolved"
        /\ packageManager = (IF probe = "exit0" THEN "yarn" ELSE "npm")
        /\ merges > 0 =>
               GetKey(GetKey(pkgJson.obj, "scripts").o, "build") =
                   (IF probe = "exit0" THEN "yarn  clean && yarn  tsc --"
                    ELSE "npm run clean && npm run tsc --")
        /\ promise["installDevDeps"] # "none" =>
               /\ Len(spawned) = 3
               /\ spawned[3].cmd \in (IF probe = "exit0" THEN {"yarn", "yarn.cmd"}
                                      ELSE {"npm", "npm.cmd"})
               /\ Head(spawned[3].args) = (IF probe = "exit0" THEN "add" ELSE "install")

\* C5: the detection never rejects, the probe is spawned once, the value
\* follows the probe's outcome and is the one used until the end of the run
C5_DetectionOnce ==
    /\ [](promise["getPackageManager"] # "rejected")
    /\ [](variant = 1 /\ promise["getPackageManager"] # "none" =>
             /\ spawned[1].args = <<"-v">>
             /\ \A i \in 2..Len(spawned) : spawned[i].args # <<"-v">>)
    /\ []C5_Detected
    /\ [][probe # "none" => probe' = probe /\ packageManager' = packageManager]_vars

C5_Witness ==
    /\ probe = "spawnError"
    /\ pc = "done"
    /\ merges = 1

EntrySet(o) == {o[i] : i \in 1..Len(o)}

C7_Preserved ==
    merges >= 1 =>
        LET before == pkgOrig.obj
            after == pkgJson.obj
        IN  /\ \A i \in 1..Len(before) :
                   before[i][1] \notin {"scripts", "devDependencies"} =>
                       i <= Len(after) /\ after[i] = before[i]
            /\ KeysOf(after) \subseteq KeysOf(before) \cup {"scripts", "devDependencies"}
            /\ DistinctKeys(after)
            /\ DistinctKeys(Member(after, "scripts"))
            /\ DistinctKeys(Member(after, "devDependencies"))
            /\ \A e \in EntrySet(Member(before, "scripts")) :
                   e[1] \notin ScriptKeys => e \in EntrySet(Member(after, "scripts"))
            /\ \A e \in EntrySet(Member(before, "devDependencies")) :
                   e[1] \notin DevKeys => e \in EntrySet(Member(after, "devDependencies"))
            /\ EntrySet(ScriptsPatch(variant, packageManager))
                   \subseteq EntrySet(Member(after, "scripts"))
            /\ GetKey(Member(after, "scripts"), "tsc") = "tsc"
            /\ variant = 2 =>
                   EntrySet(DevDependenciesPatch) \subseteq EntrySet(Member(after, "devDependencies"))
            /\ variant = 1 =>
                   Member(after, "devDependencies") = Member(before, "devDependencies")

\* C7: what the first merge wrote keeps the foreign keys and carries the patch,
\* and a further merge writes the same content again
C7_MergeIdempotent ==
    /\ []C7_Preserved
    /\ [][merges >= 1 => pkgJson' = pkgJson]_vars

C7_Witness ==
    /\ merges = 2
    /\ variant = 2
    /\ {"tsc", "start"} \subseteq KeysOf(Member(pkgOrig.obj, "scripts"))
    /\ {"typescript", "jest"} \subseteq KeysOf(Member(pkgOrig.obj, "devDependencies"))

(***************************************************************************)
(* C8. modifyIndexJs: content with a match of the literal './App' in       *)
(* single quotes (case-insensitive) is written back with the first match   *)
(* replaced by './build/App' and nothing else changed; content with no     *)
(* match of the literal is written back unchanged.                         *)
(***************************************************************************)
C8_RewriteLiteral ==
    rewrites = 1 =>
        IF LiteralMatches(indexOrig) = {} THEN indexJs = indexOrig
        ELSE indexJs = WithBuildPathAt(indexOrig, FirstLiteral(indexOrig))

(***************************************************************************)
(* C9. The steps of init run in the order detection, generator, source     *)
(* directory, asset copy, file patch, install, success message; a step     *)
(* starts only when the one before it has succeeded.  When a step rejects, *)
(* no later step starts, nothing is retried, nothing written is rolled     *)
(* back, the one top-level handler reports the error and no success        *)
(* message is printed.                                                     *)
(***************************************************************************)
StepOrder == IF variant = 1 THEN Steps ELSE Tail(Steps)

StartedSet == {started[i] : i \in 1..Len(started)}

C9_Order ==
    /\ Len(started) <= Len(StepOrder)
    /\ started = SubSeq(StepOrder, 1, Len(started))
    /\ \A i \in 1..(Len(started) - 1) : promise[started[i]] = "resolved"
    /\ \A s \in StepSet : promise[s] # "none" <=> s \in StartedSet
    /\ Len(spawned) =
           Cardinality(StartedSet \cap {"getPackageManager", "createApp", "installDevDeps"})
    /\ promise["copyAssetFiles"] = "resolved" => \A f \in Assets : copy[f] = "resolved"
    /\ promise["modifyAppFiles"] = "resolved" => \A e \in Edits : edit[e] = "resolved"
    /\ promise["copyAssetFiles"] = "none" => \A f \in Assets : copy[f] = "idle"
    /\ promise["modifyAppFiles"] = "none" => \A e \in Edits : edit[e] = "idle"
    /\ SuccessReported =>
           /\ pc = "done"
           /\ started = StepOrder
           /\ \A s \in StartedSet : promise[s] = "resolved"
           /\ CatchReports = {}
    /\ (\E s \in StepSet : promise[s] = "rejected") =>
           /\ pc \in {"failed", "crashed"}
           /\ promise[started[Len(started)]] = "rejected"
           /\ promise["init"] = "rejected"
           /\ Cardinality(CatchReports) = 1
           /\ ~SuccessReported

\* C9: the order of the steps in every state, and in every step of a run: no
\* start, spawn or report after a rejection, nothing written is taken back
C9_Pipeline ==
    /\ []C9_Order
    /\ [][/\ promise["init"] = "rejected" =>
                 /\ promise'["init"] = "rejected"
                 /\ \A s \in StepSet : promise'[s] = promise[s]
                 /\ started' = started /\ spawned' = spawned /\ log' = log
          /\ (files \ {"App.js"}) \subseteq files'
          /\ rewrites > 0 => indexJs' = indexJs
          /\ merges > 0 => pkgJson' = pkgJson
          /\ Len(started') <= Len(started) + 1
          /\ SubSeq(started', 1, Len(started)) = started]_vars

C9_Witness ==
    /\ pc = "failed"
    /\ promise["modifyAppFiles"] = "rejected"
    /\ edit["index"] = "rejected"
    /\ merges = 1
    /\ "App.js" \notin files

(***************************************************************************)
(* C10. A read-stream or write-stream error in copyFile never rejects the  *)
(* promise copyFile returned: the failure never reaches the top-level      *)
(* handler, and the run hangs before the file patch (or reports success).  *)
(***************************************************************************)
CopyErrored == \E f \in Assets : copy[f] = "errored"

C10_State ==
    /\ \A f \in Assets : copy[f] # "rejected"
    /\ promise["copyAssetFiles"] # "rejected"
    /\ CopyErrored =>
           /\ CatchReports = {}
           /\ \/ /\ pc = "running"
                 /\ promise["copyAssetFiles"] = "pending"
                 /\ promise["modifyAppFiles"] = "none"
                 /\ \A e \in Edits : edit[e] = "idle"
              \/ SuccessReported

\* C10: no copy promise is ever rejected, and a copy whose stream failed stays
\* unsettled, with init waiting at copyAssetFiles and nothing reported
C10_CopyErrorSwallowed ==
    /\ []C10_State
    /\ [][\A f \in Assets : copy[f] = "errored" => copy'[f] = "errored"]_vars

C10_Witness ==
    /\ copy["App.tsx"] = "errored"
    /\ copy["tsconfig.json"] = "resolved"
    /\ copy["tslint.json"] = "resolved"

(***************************************************************************)
(* C11. modifyAppFiles starts its three edits before any of them           *)
(* completes; when one rejects, the combined promise rejects at once,      *)
(* without waiting for the others; the sibling edits are not cancelled and *)
(* still run to completion, so the rewrite of index.js, the rewrite of     *)
(* package.json and the removal of App.js can happen after the error was   *)
(* reported.                                                               *)
(***************************************************************************)
EditSettled(e) == edit[e] \in {"resolved", "rejected"}

\* the callback the edit e is waiting for can still run: its operation is
\* pending and the process is alive (the guard of the edit's callbacks)
EditCanProceed(e) ==
    /\ pc # "crashed"
    /\ edit[e] \in {"reading", "writing", "unlinking"}

\* C11 as a property of every state: a rejected edit has rejected the combined
\* promise, and every edit that has not completed is still going to
C11_SiblingsRunToCompletion ==
    /\ (\E e \in Edits : edit[e] = "rejected") => promise["modifyAppFiles"] = "rejected"
    /\ promise["modifyAppFiles"] = "rejected" =>
           \A e \in Edits : EditSettled(e) \/ EditCanProceed(e)

\* the three edits are issued in the step that starts modifyAppFiles
C11_StartedTogether ==
    [][promise["modifyAppFiles"] = "none" /\ promise'["modifyAppFiles"] # "none" =>
           edit' = [index |-> "reading", package |-> "reading", remove |-> "unlinking"]]_vars

\* the step that rejects the combined promise reports the error and leaves the
\* sibling edits as they were
C11_NothingCancelled ==
    [][promise["modifyAppFiles"] = "pending" /\ promise'["modifyAppFiles"] = "rejected" =>
           /\ Cardinality({e \in Edits : edit'[e] # edit[e]}) = 1
           /\ Cardinality(CatchReports') = 1]_vars

\* a state in which all three file-system effects are still to come although
\* the error is reported: the read of index.js failed first
C11_LateEffectsAhead ==
    /\ pc = "failed"
    /\ edit = [index |-> "rejected", package |-> "reading", remove |-> "unlinking"]
    /\ {"package.json", "App.js"} \subseteq files
    /\ ~JsonParseThrows(pkgJson)
    /\ merges = 0

\* were the siblings cancelled, no file would change once the error is reported
C11_NoEffectAfterReport ==
    [][promise["modifyAppFiles"] = "rejected" =>
           files' = files /\ indexJs' = indexJs /\ pkgJson' = pkgJson]_vars
====
